---------------------------- MODULE Spec2Model ----------------------------
(***************************************************************************)
(* Cross-network synchronisation of the Primal Genesis Engine:             *)
(*   QuantumNetworkSynchronizer  (athenamist_integration/core/quantum_sync) *)
(*   QuantumNetworkManager       (athenamist_integration/core/quantum_network)*)
(*                                                                         *)
(* One sync_memory call is modelled as a process whose position is pc; one *)
(* step per update_status call, per iteration of the broadcast loop and    *)
(* per attempt of the send retry loop.  The manager's cancel API may run   *)
(* between two steps only where the coroutine really suspends (the HTTP    *)
(* post and the backoff sleep) or when no call is running.                 *)
(*                                                                         *)
(*   QuantumMemoryProcessor      (athenamist_integration/core/quantum_memory)*)
(* encode_memory is modelled on its own, one step per call.                *)
(*                                                                         *)
(* Abstractions: to sync_memory a record ("memory") is opaque; a metadata  *)
(* dict is the set                                                         *)
(* of its keys; ISO-8601 timestamps of one format, which Python compares   *)
(* as strings, are natural numbers in the same order; an operation is      *)
(* named by its position in ops (the object), its operation_id hash is not *)
(* modelled here.  Of a SyncOperation, ops holds the fields that change    *)
(* (status, metadata); source_network and target_networks, set once by the *)
(* constructor and read only by the call that built the operation, are in  *)
(* that call's frame.                                                      *)
(*                                                                         *)
(* quantum_sync.py as it stands does not compile: line 62 opens the class  *)
(* docstring with two quotes where line 68 closes it with three.  The      *)
(* model is of the class as it reads with that docstring opened; the       *)
(* statements of the methods are taken as written.                         *)
(***************************************************************************)
EXTENDS Integers, Sequences, FiniteSets, TLC

(***************************************************************************)
(* Bounds of the model.                                                    *)
(***************************************************************************)
MaxOps == 2          \* sync_memory calls in one behaviour
MaxTargets == 2      \* length of a caller's target_networks list
MaxConflicts == 2    \* length of a conflict list handed to a resolver

(***************************************************************************)
(* Program constants.                                                      *)
(***************************************************************************)
DefaultMaxRetries == 3

\* sync_memory's default for its timeout parameter, in seconds
DefaultTimeout == 30

\* config['quantum_networks'] of the default configuration
ConfiguredNetworks == {"divina_l3", "novasanctum", "whispurrnet"}

\* the networks whose send is a stub that always reports success
StubNetworks == {"novasanctum", "whispurrnet"}

\* network_priority of the synchronizer
Priority(net) ==
    CASE net = "divina_l3" -> 3
      [] net = "novasanctum" -> 2
      [] net = "whispurrnet" -> 1
      [] OTHER -> 0

\* conflict_resolution_strategies: the registered resolver names
RegisteredStrategies == {"timestamp", "entropy", "source_priority", "merge"}

(***************************************************************************)
(* Input domains.                                                          *)
(***************************************************************************)
\* network names a caller passes: the source default, the three backends
\* and a name no configuration knows
NetworkNames == {"local", "divina_l3", "novasanctum", "other_net"}
SourceNames == {"local", "novasanctum"}
SyncStrategies == {"push", "pull", "bidirectional", "mirror"}
ConflictResolutions == RegisteredStrategies \cup {"newest"}
DefaultConflictResolution == "entropy"

Range(s) == {s[i] : i \in DOMAIN s}

RECURSIVE SeqsUpTo(_, _)
SeqsUpTo(S, n) ==
    IF n = 0 THEN {<<>>}
    ELSE LET shorter == SeqsUpTo(S, n - 1)
         IN  shorter \cup {Append(s, x) : s \in {t \in shorter : Len(t) = n - 1}, x \in S}

TargetLists == SeqsUpTo(NetworkNames, MaxTargets)

\* timeout values a caller passes, in seconds: a short one and the default
Timeouts == {1, DefaultTimeout}

\* the calls made: every strategy with the default conflict_resolution, a
\* push with every conflict_resolution, and a push with a short timeout
CallInputs ==
    {in \in [targets : TargetLists, source : SourceNames,
             strategy : SyncStrategies, resolution : ConflictResolutions,
             timeout : Timeouts] :
        /\ in.strategy = "push" \/ in.resolution = DefaultConflictResolution
        /\ \/ in.timeout = DefaultTimeout
           \/ in.strategy = "push" /\ in.resolution = DefaultConflictResolution}

\* a conflicting version as a backend reports it
VersionIds == {"v1", "v2", "v3"}
Timestamps == {1, 2}
Entropies == {-1, 0, 1}
\* a version's 'data': is_dict is false when the version has no 'data' or one
\* that is no dict; items are the fields of a dict
NoDict == [is_dict |-> FALSE, items |-> <<>>]
Versions ==
    [version_id : VersionIds, timestamp : Timestamps,
     quantum_entropy : Entropies, source_network : {"divina_l3", "local"},
     data : {NoDict}]
ConflictLists == SeqsUpTo(Versions, MaxConflicts)

\* versions handed to the merge: their data is a dict over a few field names
\* or no dict; the order of KeyOrder stands for the order of a dict's items
KeyOrder == <<"a", "b", "c">>
FieldValues == {1, 2}
DataDicts ==
    {[is_dict |-> TRUE, items |-> f] :
        f \in UNION {[K -> FieldValues] : K \in SUBSET Range(KeyOrder)}}
MergeVersions ==
    [version_id : {"v1"}, timestamp : {1}, quantum_entropy : {0},
     source_network : {"divina_l3", "local"}, data : DataDicts \cup {NoDict}]
MergeConflictLists == SeqsUpTo(MergeVersions, MaxConflicts)

(***************************************************************************)
(* Conflict resolvers (pure in the conflict list).                         *)
(***************************************************************************)
\* _apply_resolution only logs the resolution and reports True
ApplyResolution == TRUE

\* Python's max(seq, key=...), on the keys of the elements: the position of
\* the first key that no other exceeds
PyMaxIndex(keys) ==
    CHOOSE i \in 1..Len(keys) :
        /\ \A j \in 1..Len(keys) : keys[j] <= keys[i]
        /\ \A j \in 1..(i - 1) : keys[j] < keys[i]

NoResolution == [kind |-> "empty", selected_version |-> "", applied |-> FALSE,
                 sources |-> {}, merged_fields |-> <<>>, merged |-> <<>>]
ResolverError == [NoResolution EXCEPT !.kind = "raise"]
Selected(v) == [NoResolution EXCEPT !.kind = "selected",
                                    !.selected_version = v.version_id,
                                    !.applied = ApplyResolution]

TimestampKey(x) == x.timestamp

resolve_by_timestamp(conflicts) ==
    IF conflicts = <<>> THEN NoResolution
    ELSE Selected(conflicts[PyMaxIndex([i \in DOMAIN conflicts |-> TimestampKey(conflicts[i])])])

\* the scan of _resolve_by_entropy: selected = 0 is Python's None
RECURSIVE EntropyScan(_, _, _, _)
EntropyScan(conflicts, i, max_entropy, selected) ==
    IF i > Len(conflicts) THEN selected
    ELSE IF conflicts[i].quantum_entropy > max_entropy
         THEN EntropyScan(conflicts, i + 1, conflicts[i].quantum_entropy, i)
         ELSE EntropyScan(conflicts, i + 1, max_entropy, selected)

resolve_by_entropy(conflicts) ==
    IF conflicts = <<>> THEN NoResolution
    ELSE LET selected == EntropyScan(conflicts, 1, -1, 0)
         IN  IF selected = 0 THEN ResolverError   \* None.get: AttributeError
             ELSE Selected(conflicts[selected])

PriorityKey(x) == Priority(x.source_network)

resolve_by_source_priority(conflicts) ==
    IF conflicts = <<>> THEN NoResolution
    ELSE Selected(conflicts[PyMaxIndex([i \in DOMAIN conflicts |-> PriorityKey(conflicts[i])])])

\* a field value that overwrites what an earlier version gave
MergeFieldLastWins(acc, key, value) ==
    [acc EXCEPT !.merged = (key :> value) @@ @,
                !.merged_fields = IF key \in DOMAIN acc.merged THEN @
                                  ELSE Append(@, key)]

\* lines 350-351: `if k not in merged: merged[k] = v`; merged_fields is the
\* key list of the dict, in insertion order
MergeField(acc, key, value) ==
    IF key \in DOMAIN acc.merged THEN acc
    ELSE [acc EXCEPT !.merged = (key :> value) @@ @,
                     !.merged_fields = Append(@, key)]

\* line 349: the items of one version's data, in the dict's order
RECURSIVE MergeItems(_, _, _)
MergeItems(acc, items, k) ==
    IF k > Len(KeyOrder) THEN acc
    ELSE MergeItems(IF KeyOrder[k] \in DOMAIN items
                    THEN MergeField(acc, KeyOrder[k], items[KeyOrder[k]])
                    ELSE acc,
                    items, k + 1)

\* line 345: conflict.get('source_network', 'unknown'); "" is a missing key
SourceOrUnknown(x) == IF x.source_network = "" THEN "unknown" ELSE x.source_network

\* lines 344-351: the loop over the versions
RECURSIVE MergeScan(_, _, _)
MergeScan(conflicts, i, acc) ==
    IF i > Len(conflicts) THEN acc
    ELSE LET withSource ==
                 [acc EXCEPT !.sources = @ \cup {SourceOrUnknown(conflicts[i])}]
         IN  MergeScan(conflicts, i + 1,
                       IF conflicts[i].data.is_dict
                       THEN MergeItems(withSource, conflicts[i].data.items, 1)
                       ELSE withSource)

\* the merge itself cannot raise
resolve_by_merge(conflicts) ==
    IF conflicts = <<>> THEN NoResolution
    ELSE [MergeScan(conflicts, 1, NoResolution) EXCEPT
             !.kind = "merged", !.applied = ApplyResolution]

Resolver(name, conflicts) ==
    CASE name = "timestamp" -> resolve_by_timestamp(conflicts)
      [] name = "entropy" -> resolve_by_entropy(conflicts)
      [] name = "source_priority" -> resolve_by_source_priority(conflicts)
      [] name = "merge" -> resolve_by_merge(conflicts)

(***************************************************************************)
(* QuantumMemoryProcessor.encode_memory (athenamist_integration/core/       *)
(* quantum_memory).  A record is a dict of one-character keys and digit    *)
(* values; a text is the sequence of its characters' code points; a bit    *)
(* string is a sequence of 0s and 1s; a measured state of n qubits is the  *)
(* number it spells, with n.                                               *)
(***************************************************************************)
\* the records handed to encode_memory: {}, {"a": 1} and {"c": 9}
Memories == {<<>>, [a |-> 1], [c |-> 9]}

\* ord(c) of the characters json.dumps writes for such a record
Ord(c) ==
    CASE c = "{" -> 123 [] c = "}" -> 125 [] c = "\"" -> 34 [] c = ":" -> 58
      [] c = "," -> 44 [] c = " " -> 32 [] c = "a" -> 97 [] c = "c" -> 99
      [] c = "x" -> 120 [] c = "y" -> 121

\* str(d) of a digit
Digit(d) == 48 + d

\* sort_keys = True: the keys in code point order
RECURSIVE SortedKeys(_)
SortedKeys(ks) ==
    IF ks = {} THEN <<>>
    ELSE LET k == CHOOSE x \in ks : \A y \in ks : Ord(x) <= Ord(y)
         IN  <<k>> \o SortedKeys(ks \ {k})

RECURSIVE JsonItems(_, _)
JsonItems(memory, keys) ==
    IF keys = <<>> THEN <<>>
    ELSE <<Ord("\""), Ord(keys[1]), Ord("\""), Ord(":"), Ord(" "),
           Digit(memory[keys[1]])>>
         \o (IF Len(keys) > 1 THEN <<Ord(","), Ord(" ")>> ELSE <<>>)
         \o JsonItems(memory, Tail(keys))

\* json.dumps(memory, sort_keys=True)
JsonDumps(memory) ==
    <<Ord("{")>> \o JsonItems(memory, SortedKeys(DOMAIN memory)) \o <<Ord("}")>>

\* format(ord(c), '08b') of a code point below 256
Format08b(code) == [i \in 1..8 |-> (code \div (2 ^ (8 - i))) % 2]

RECURSIVE BinaryStr(_)
BinaryStr(text) ==
    IF text = <<>> THEN <<>> ELSE Format08b(Head(text)) \o BinaryStr(Tail(text))

MaxQubits == 20

\* the loop "while (2 ** n_qubits) < len(binary_str)", entered with n
RECURSIVE QubitLoop(_, _)
QubitLoop(n, len) ==
    IF 2 ^ n < len
    THEN IF n + 1 > MaxQubits THEN MaxQubits ELSE QubitLoop(n + 1, len)
    ELSE n

NQubits(bits) == QubitLoop(1, Len(bits))

\* the truncation of the loop's last branch, which cuts only a string that
\* left the loop by it, then ljust(2 ** n_qubits, '0')
Padded(bits) ==
    LET n == NQubits(bits)
        cut == IF Len(bits) > 2 ^ n THEN SubSeq(bits, 1, 2 ^ n) ELSE bits
    IN  cut \o [i \in 1..(2 ^ n - Len(cut)) |-> 0]

\* qubit q carries a Z gate for each '1' at a position i with i % n = q
\* (positions from 0); two Z gates cancel, so the circuit is fixed by the
\* parity of their number on each qubit
ZParity(bits, n, q) ==
    Cardinality({i \in 1..Len(bits) : bits[i] = 1 /\ (i - 1) % n = q}) % 2

\* The states the simulator can report for H on each qubit, the Z gates,
\* then the QFT: the amplitude of y is the product over the qubits q of
\* 1 + w^(2^q * y) where the parity is 0 and 1 - w^(2^q * y) where it is 1
\* (w the 2^n-th root of unity), so y has probability zero exactly when
\* some factor vanishes.  The 1024 shots are drawn without a seed, so the
\* most frequent state of a run is any one of these.
Measurable(bits) ==
    LET n == NQubits(bits)
        N == 2 ^ n
        b == Padded(bits)
    IN  {y \in 0..(N - 1) :
            \A q \in 0..(n - 1) :
                IF ZParity(b, n, q) = 0
                THEN ((2 ^ q) * y) % N # N \div 2
                ELSE ((2 ^ q) * y) % N # 0}

\* hashlib.sha256(most_probable.encode()).hexdigest(): one id per string
Sha256(qubits, state) == <<"sha256", qubits, state>>

\* binary_str of each record of the domain, before the padding
BinaryOf == [memory \in Memories |-> BinaryStr(JsonDumps(memory))]

\* the states a run can report most often, for each record of the domain
MostProbable == [memory \in Memories |-> Measurable(BinaryOf[memory])]

\* n_qubits of each record of the domain
QubitsOf == [memory \in Memories |-> NQubits(BinaryOf[memory])]

\* a pattern whose id is the hash of the record it encodes
PatternWithRecordId(memory, state) ==
    [pattern_id |-> <<"sha256", memory>>,
     qubits |-> QubitsOf[memory],
     state |-> state,
     original_memory |-> memory]

\* the QuantumMemoryPattern built from a measured state; of its metadata,
\* binary_encoding is Padded(BinaryOf[memory]) and is not held again
Pattern(memory, state) ==
    [pattern_id |-> Sha256(QubitsOf[memory], state),
     qubits |-> QubitsOf[memory],
     state |-> state,
     original_memory |-> memory]

(***************************************************************************)
(* State.                                                                  *)
(***************************************************************************)
VARIABLES
    manager,          \* the network_manager the synchronizer was built with:
                      \*   "real" a QuantumNetworkManager, "mock" the tests' double
    ops,              \* the SyncOperation objects, in creation order: status
                      \*   and metadata keys
    sync_operations,  \* QuantumNetworkManager.sync_operations: the registered ops
    pc,               \* position of the running sync_memory call
    call,             \* its frame; broadcast_calls counts the calls of
                      \*   network_manager.broadcast_memory it made, slept
                      \*   the seconds it spent in asyncio.sleep
                      \*   memory is the caller's dict, the one object that
                      \*   the pattern's metadata['original_memory'] and
                      \*   broadcast_memory's argument also name: "as_passed"
                      \*   until something writes into it; source_listed
                      \*   tells whether the caller's target_networks named
                      \*   the source network, sent lists the networks a
                      \*   _send_to_ method was called for, in call order
    ret,              \* what the call gives its caller on leaving
    api,              \* the manager API call made by the last step, and its result
    patterns,         \* QuantumMemoryProcessor.patterns: pattern_id -> pattern
    pattern_keys,     \* the keys of that dict in the order it iterates them
    encoded,          \* the patterns encode_memory has returned, in call order
    entangled_pairs,  \* QuantumEntanglementManager.entangled_pairs: pair_id -> pair
    returned,         \* the last call of find_similar_patterns,
                      \*   quantum_entangle_memories or create_entangled_pair,
                      \*   with what it returned
    broadcast         \* the caller's broadcast_memory(sync_across_networks =
                      \*   True) call: its arguments, its position, and what
                      \*   its loop and its nested sync_memory did

\* the state of the memory processor and the entanglement manager
processor == <<patterns, pattern_keys, encoded, entangled_pairs, returned>>

vars == <<manager, ops, sync_operations, pc, call, ret, api, processor,
          broadcast>>

EmptyMap == [n \in {} |-> ""]

\* one network's entry of broadcast_memory's network_results: the 'status'
\* of the backend's answer, or "error" with the kind of message
Result(status, message) == [status |-> status, message |-> message]

NoFrame ==
    [op |-> 0, source_network |-> "", target_networks |-> <<>>,
     sync_strategy |-> "", conflict_resolution |-> "",
     networks |-> <<>>, network_results |-> EmptyMap,
     attempt |-> 0, exc |-> "", conflicts |-> <<>>, send_conflict |-> FALSE,
     results |-> EmptyMap, resolver_called |-> FALSE, resolution |-> NoResolution,
     broadcast_calls |-> 0, timeout |-> 0, slept |-> 0,
     memory |-> "as_passed", source_listed |-> FALSE, sent |-> <<>>]

NoRet == [kind |-> "none", status |-> "", results |-> EmptyMap, exc |-> ""]
NoApi == [call |-> "none", id |-> 0, result |-> FALSE, status |-> ""]
NoReturn == [call |-> "none", args |-> <<>>, value |-> <<>>]

\* no broadcast_memory(sync_across_networks = True) call was made yet
NoBroadcast ==
    [pc |-> "none", networks |-> <<>>, sync_strategy |-> "",
     serializable |-> TRUE, sent |-> <<>>, nested_calls |-> 0,
     nested_sent |-> <<>>, nested_ret |-> "none",
     cross_network_sync |-> "", raised |-> FALSE]

Init ==
    /\ manager \in {"real", "mock"}
    /\ ops = <<>>
    /\ sync_operations = {}
    /\ pc = "idle"
    /\ call = NoFrame
    /\ ret = NoRet
    /\ api = NoApi
    /\ patterns = <<>>
    /\ pattern_keys = <<>>
    /\ encoded = <<>>
    /\ entangled_pairs = <<>>
    /\ returned = NoReturn
    /\ broadcast = NoBroadcast

\* SyncOperation.update_status; a metadata dict is the set of its keys
UpdateStatus(o, status, keys) ==
    [o EXCEPT !.status = status, !.metadata = @ \cup keys]

\* the coroutine is suspended in real I/O (session.post, asyncio.sleep), or
\* no sync_memory call is running
AtAwait == pc \in {"idle", "dl3_attempt", "dl3_backoff"}

(***************************************************************************)
(* sync_memory                                                             *)
(***************************************************************************)
\* a target list that is taken as the caller gave it
TargetNetworksUnfiltered(target_networks, source_network) == target_networks

\* line 122: the operation's target_networks
TargetNetworks(target_networks, source_network) ==
    SelectSeq(target_networks, LAMBDA n : n # source_network)

\* lines 113-134: the operation is built PENDING and stored
SyncMemory(targets, source, strategy, resolution, timeout) ==
    /\ pc = "idle"
    /\ Len(ops) < MaxOps
    /\ ops' = Append(ops,
           [status |-> "PENDING",
            metadata |-> {"sync_strategy", "conflict_resolution", "timeout"}])
    /\ call' = [NoFrame EXCEPT !.op = Len(ops) + 1,
                               !.source_network = source,
                               !.target_networks =
                                   TargetNetworks(targets, source),
                               !.source_listed = source \in Range(targets),
                               !.sync_strategy = strategy,
                               !.conflict_resolution = resolution,
                               !.timeout = timeout]
    /\ ret' = NoRet
    /\ pc' = "created"
    /\ api' = NoApi
    /\ UNCHANGED <<processor, broadcast, manager, sync_operations>>

\* line 114: json.dumps of an unserializable record raises before any
\* operation exists
SyncMemoryUnserializable ==
    /\ pc = "idle"
    /\ call' = NoFrame
    /\ ret' = [NoRet EXCEPT !.kind = "raise", !.exc = "TypeError"]
    /\ pc' = "returned"
    /\ api' = NoApi
    /\ UNCHANGED <<processor, broadcast, manager, ops, sync_operations>>

\* lines 138-139, 142-143, 204: push and bidirectional enter _push_sync
PushSyncBegin ==
    /\ pc = "created"
    /\ call.sync_strategy \in {"push", "bidirectional"}
    /\ ops' = [ops EXCEPT ![call.op] = UpdateStatus(@, "IN_PROGRESS", {})]
    /\ pc' = "broadcast"
    /\ api' = NoApi
    /\ UNCHANGED <<processor, broadcast, manager, sync_operations, call, ret>>

\* lines 140-141 and 244, 231: _pull_sync marks the operation IN_PROGRESS
PullSyncBegin ==
    /\ \/ pc = "created" /\ call.sync_strategy = "pull"
       \/ pc = "pull"
    /\ ops' = [ops EXCEPT ![call.op] = UpdateStatus(@, "IN_PROGRESS", {})]
    /\ pc' = "pull_raise"
    /\ api' = NoApi
    /\ UNCHANGED <<processor, broadcast, manager, sync_operations, call, ret>>

\* line 238
PullSyncRaise ==
    /\ pc = "pull_raise"
    /\ call' = [call EXCEPT !.exc = "NotImplementedError"]
    /\ pc' = "except"
    /\ api' = NoApi
    /\ UNCHANGED <<processor, broadcast, manager, ops, sync_operations, ret>>

\* lines 144-145
UnknownStrategy ==
    /\ pc = "created"
    /\ call.sync_strategy \notin {"push", "pull", "bidirectional"}
    /\ call' = [call EXCEPT !.exc = "ValueError"]
    /\ pc' = "except"
    /\ api' = NoApi
    /\ UNCHANGED <<processor, broadcast, manager, ops, sync_operations, ret>>

(***************************************************************************)
(* broadcast_memory of the real manager, as _push_sync calls it            *)
(* (enable_quantum_processing = True, sync_across_networks = False)        *)
(***************************************************************************)
\* lines 207-243: the quantum processing block encodes the record again and
\* writes memory['metadata']['quantum'] into the dict it was handed (229-235);
\* its except branch is entered only if that encoding raises, which the
\* encoding of the same record at sync_memory's line 117 did not.  Its entry
\* of the results decides nothing of what follows and is left out.
BroadcastBegin ==
    /\ pc = "broadcast"
    /\ manager = "real"
    /\ call' = [call EXCEPT !.networks = call.target_networks,
                            !.network_results = EmptyMap,
                            !.broadcast_calls = @ + 1,
                            !.memory = "annotated"]
    /\ pc' = "bm_loop"
    /\ api' = NoApi
    /\ UNCHANGED <<processor, broadcast, manager, ops, sync_operations, ret>>

\* lines 246-248: a network the configuration does not know is skipped
BroadcastSkipUnknown ==
    /\ pc = "bm_loop"
    /\ call.networks # <<>>
    /\ Head(call.networks) \notin ConfiguredNetworks
    /\ call' = [call EXCEPT !.networks = Tail(@)]
    /\ api' = NoApi
    /\ UNCHANGED <<processor, broadcast, manager, ops, sync_operations, pc, ret>>

\* lines 253-256, 385-393: the stub sends report success
BroadcastSendStub ==
    /\ pc = "bm_loop"
    /\ call.networks # <<>>
    /\ Head(call.networks) \in ConfiguredNetworks \cap StubNetworks
    /\ call' = [call EXCEPT
                   !.network_results =
                       (Head(call.networks) :> Result("success", "queued")) @@ @,
                   !.sent = Append(@, Head(call.networks)),
                   !.networks = Tail(@)]
    /\ api' = NoApi
    /\ UNCHANGED <<processor, broadcast, manager, ops, sync_operations, pc, ret>>

\* a broadcast loop that records the failed send and lets the exception go
OnSendErrorAborts(c, message) ==
    [pc |-> "except",
     call |-> [c EXCEPT !.network_results =
                            (Head(c.networks) :> Result("error", message)) @@ @,
                        !.exc = "RuntimeError",
                        !.attempt = 0]]

\* a broadcast loop that goes on without recording the failed send
OnSendErrorUnrecorded(c, message) ==
    [pc |-> "bm_loop",
     call |-> [c EXCEPT !.networks = Tail(@), !.attempt = 0]]

\* lines 257-259: a send that raised is recorded for its network and the
\* loop goes on
OnSendError(c, message) ==
    [pc |-> "bm_loop",
     call |-> [c EXCEPT !.network_results =
                            (Head(c.networks) :> Result("error", message)) @@ @,
                        !.networks = Tail(@),
                        !.attempt = 0]]

\* lines 251-252, 299-355: _send_to_divina_l3 builds its payload (encoding,
\* signature); anything raised there leaves the send before the first attempt
BroadcastSendDivina ==
    /\ pc = "bm_loop"
    /\ call.networks # <<>>
    /\ Head(call.networks) = "divina_l3"
    /\ Head(call.networks) \in ConfiguredNetworks
    /\ LET c == [call EXCEPT !.sent = Append(@, "divina_l3")]
       IN  \/ /\ call' = [c EXCEPT !.attempt = 0]
              /\ pc' = "dl3_attempt"
           \/ /\ call' = OnSendError(c, "raised").call
              /\ pc' = OnSendError(c, "raised").pc
    /\ api' = NoApi
    /\ UNCHANGED <<processor, broadcast, manager, ops, sync_operations, ret>>

\* lines 359-370: the post is answered 200 with a signature that verifies;
\* the answer is the network's result, whatever its 'status' field says
DivinaAccepted ==
    /\ pc = "dl3_attempt"
    /\ \E status \in {"success", "other"} :
          call' = [call EXCEPT !.network_results =
                                   ("divina_l3" :> Result(status, "")) @@ @,
                               !.networks = Tail(@),
                               !.attempt = 0]
    /\ pc' = "bm_loop"
    /\ api' = NoApi
    /\ UNCHANGED <<processor, broadcast, manager, ops, sync_operations, ret>>

\* lines 371-383: the attempt raised (timeout, API error, bad signature, or a
\* SyncConflict of the backend); every exception is caught by the retry loop
DivinaAttemptFails ==
    /\ pc = "dl3_attempt"
    /\ \E conflict \in BOOLEAN :
          LET c == [call EXCEPT !.send_conflict = @ \/ conflict]
          IN  IF call.attempt < DefaultMaxRetries - 1
              THEN /\ call' = c
                   /\ pc' = "dl3_backoff"
              ELSE /\ call' = OnSendError(c, "exhausted").call
                   /\ pc' = OnSendError(c, "exhausted").pc
    /\ api' = NoApi
    /\ UNCHANGED <<processor, broadcast, manager, ops, sync_operations, ret>>

\* a wait of one second after every failed attempt
BackoffConstant(attempt) == 1

\* line 380: 2 ** attempt seconds
Backoff(attempt) == 2 ^ attempt

\* line 380: asyncio.sleep(2 ** attempt), then the next attempt
DivinaBackoff ==
    /\ pc = "dl3_backoff"
    /\ call' = [call EXCEPT !.attempt = @ + 1,
                            !.slept = @ + Backoff(call.attempt)]
    /\ pc' = "dl3_attempt"
    /\ api' = NoApi
    /\ UNCHANGED <<processor, broadcast, manager, ops, sync_operations, ret>>

\* lines 262, 290: no cross-network sync in a push; the results are returned
BroadcastReturn ==
    /\ pc = "bm_loop"
    /\ call.networks = <<>>
    /\ pc' = "push_results"
    /\ api' = NoApi
    /\ UNCHANGED <<processor, broadcast, manager, ops, sync_operations, call, ret>>

(***************************************************************************)
(* broadcast_memory of the tests' manager double                           *)
(***************************************************************************)
\* the fixture's return value
MockNetworkResults ==
    ("divina_l3" :> Result("success", "")) @@ ("novasanctum" :> Result("success", ""))

\* conflict lists a double raises SyncConflict with: the test's two versions
\* (the later one has the lower entropy), none, and versions whose entropy
\* is below the resolver's starting maximum
SampleConflicts ==
    { <<[version_id |-> "v1", timestamp |-> 1, quantum_entropy |-> 1,
         source_network |-> "divina_l3", data |-> NoDict],
        [version_id |-> "v2", timestamp |-> 2, quantum_entropy |-> 0,
         source_network |-> "local", data |-> NoDict]>>,
      <<>>,
      <<[version_id |-> "v1", timestamp |-> 1, quantum_entropy |-> -1,
         source_network |-> "divina_l3", data |-> NoDict]>> }

MockBroadcastReturns ==
    /\ pc = "broadcast"
    /\ manager = "mock"
    /\ call' = [call EXCEPT !.network_results = MockNetworkResults,
                            !.broadcast_calls = @ + 1]
    /\ pc' = "push_results"
    /\ api' = NoApi
    /\ UNCHANGED <<processor, broadcast, manager, ops, sync_operations, ret>>

MockBroadcastConflict ==
    /\ pc = "broadcast"
    /\ manager = "mock"
    /\ \E conflicts \in SampleConflicts :
          call' = [call EXCEPT !.exc = "SyncConflict", !.conflicts = conflicts,
                               !.broadcast_calls = @ + 1]
    /\ pc' = "except_conflict"
    /\ api' = NoApi
    /\ UNCHANGED <<processor, broadcast, manager, ops, sync_operations, ret>>

(***************************************************************************)
(* sync_memory, after the dispatch                                         *)
(***************************************************************************)
\* lines 214-224: one entry per entry of network_results
PushResultsOf(network_results) ==
    [n \in DOMAIN network_results |->
        IF network_results[n].status = "success" THEN "success" ELSE "error"]

PushSyncReturn ==
    /\ pc = "push_results"
    /\ call' = [call EXCEPT !.results = PushResultsOf(call.network_results)]
    /\ pc' = IF call.sync_strategy = "push" THEN "complete" ELSE "pull"
    /\ api' = NoApi
    /\ UNCHANGED <<processor, broadcast, manager, ops, sync_operations, ret>>

\* lines 147-153
Complete ==
    /\ pc = "complete"
    /\ ops' = [ops EXCEPT ![call.op] = UpdateStatus(@, "COMPLETED", {"results"})]
    /\ ret' = [NoRet EXCEPT !.kind = "return", !.status = "success",
                            !.results = call.results]
    /\ pc' = "returned"
    /\ api' = NoApi
    /\ UNCHANGED <<processor, broadcast, manager, sync_operations, call>>

\* lines 155-158
ExceptSyncConflict ==
    /\ pc = "except_conflict"
    /\ ops' = [ops EXCEPT ![call.op] = UpdateStatus(@, "CONFLICT", {"conflicts"})]
    /\ pc' = "resolve"
    /\ api' = NoApi
    /\ UNCHANGED <<processor, broadcast, manager, sync_operations, call, ret>>

\* lines 161-164: only a registered strategy is invoked
Resolve ==
    /\ pc = "resolve"
    /\ IF call.conflict_resolution \in RegisteredStrategies
       THEN LET resolved == Resolver(call.conflict_resolution, call.conflicts)
            IN  /\ call' = [call EXCEPT !.resolver_called = TRUE,
                                        !.resolution = resolved]
                /\ pc' = IF resolved.kind = "raise" THEN "resolve_failed"
                         ELSE "resolved"
       ELSE /\ call' = call
            /\ pc' = "unresolved"
    /\ api' = NoApi
    /\ UNCHANGED <<processor, broadcast, manager, ops, sync_operations, ret>>

\* lines 165-175
Resolved ==
    /\ pc = "resolved"
    /\ ops' = [ops EXCEPT ![call.op] =
                  UpdateStatus(@, "COMPLETED",
                               {"resolved", "resolution_strategy", "resolution"})]
    /\ ret' = [NoRet EXCEPT !.kind = "return", !.status = "resolved"]
    /\ pc' = "returned"
    /\ api' = NoApi
    /\ UNCHANGED <<processor, broadcast, manager, sync_operations, call>>

\* lines 176-182: the resolver's exception leaves sync_memory
ResolveFailed ==
    /\ pc = "resolve_failed"
    /\ ops' = [ops EXCEPT ![call.op] = UpdateStatus(@, "FAILED", {"error", "conflicts"})]
    /\ ret' = [NoRet EXCEPT !.kind = "raise", !.exc = "AttributeError"]
    /\ pc' = "returned"
    /\ api' = NoApi
    /\ UNCHANGED <<processor, broadcast, manager, sync_operations, call>>

\* a handler that raises again without marking the operation
UnresolvedLeavesConflict(o) == o

\* lines 184-188: no registered strategy
UnresolvedUpdate(o) == UpdateStatus(o, "FAILED", {"error", "conflicts"})

\* lines 184-189: the SyncConflict is raised again
Unresolved ==
    /\ pc = "unresolved"
    /\ ops' = [ops EXCEPT ![call.op] = UnresolvedUpdate(@)]
    /\ ret' = [NoRet EXCEPT !.kind = "raise", !.exc = call.exc]
    /\ pc' = "returned"
    /\ api' = NoApi
    /\ UNCHANGED <<processor, broadcast, manager, sync_operations, call>>

\* lines 191-195: any other exception marks the operation FAILED and is
\* raised again
ExceptOther ==
    /\ pc = "except"
    /\ ops' = [ops EXCEPT ![call.op] = UpdateStatus(@, "FAILED", {"error"})]
    /\ ret' = [NoRet EXCEPT !.kind = "raise", !.exc = call.exc]
    /\ pc' = "returned"
    /\ api' = NoApi
    /\ UNCHANGED <<processor, broadcast, manager, sync_operations, call>>

(***************************************************************************)
(* The manager's operation API                                             *)
(***************************************************************************)
\* a lookup in the synchronizer's active_operations, which holds every
\* operation sync_memory created
RegisteredWithSynchronizer(id) == id \in 1..Len(ops)

\* `operation_id in self.sync_operations`
Registered(id) == id \in sync_operations

\* a cancel that also takes an operation in CONFLICT
CancellableOrConflict(status) == status \in {"PENDING", "IN_PROGRESS", "CONFLICT"}

\* line 633: `op.status in [SyncStatus.PENDING, SyncStatus.IN_PROGRESS]`
Cancellable(status) == status \in {"PENDING", "IN_PROGRESS"}

\* cancel_sync_operation, lines 629-636; id 0 is an id no operation has
CancelSyncOperation(id) ==
    /\ AtAwait
    /\ IF Registered(id) /\ Cancellable(ops[id].status)
       THEN /\ ops' = [ops EXCEPT ![id] = UpdateStatus(@, "FAILED", {"cancelled"})]
            /\ api' = [NoApi EXCEPT !.call = "cancel", !.id = id, !.result = TRUE]
       ELSE /\ ops' = ops
            /\ api' = [NoApi EXCEPT !.call = "cancel", !.id = id]
    /\ UNCHANGED <<processor, broadcast, manager, sync_operations, pc, call, ret>>

\* lines 616-627: the view of a registered operation (its status, as it is
\* now), or None (result FALSE)
View(id) ==
    IF Registered(id)
    THEN [NoApi EXCEPT !.call = "status", !.id = id, !.result = TRUE,
                       !.status = ops[id].status]
    ELSE [NoApi EXCEPT !.call = "status", !.id = id]

\* get_sync_status, lines 614-627
GetSyncStatus(id) ==
    /\ AtAwait
    /\ api' = View(id)
    /\ UNCHANGED <<processor, broadcast, manager, ops, sync_operations, pc, call, ret>>

\* the call has left sync_memory (return or raise): its frame is gone and the
\* caller holds what it gave
SyncMemoryReturn ==
    /\ pc = "returned"
    /\ pc' = "idle"
    /\ call' = NoFrame
    /\ ret' = NoRet
    /\ api' = NoApi
    /\ UNCHANGED <<processor, broadcast, manager, ops, sync_operations>>

\* broadcast_memory(sync_across_networks = True), lines 262-281: the caller
\* of sync_memory was the manager itself (source_network is left at its
\* default); the call returned, and the manager looks the operation up to
\* mark it
BroadcastCrossSyncUpdate ==
    /\ pc = "returned"
    /\ call.op # 0
    /\ call.source_network = "local"
    /\ ret.kind = "return"
    /\ IF Registered(call.op)
       THEN ops' = [ops EXCEPT ![call.op] =
                       IF ret.status = "success"
                       THEN UpdateStatus(@, "COMPLETED", {})
                       ELSE UpdateStatus(@, "FAILED", {"error"})]
       ELSE ops' = ops
    /\ api' = [NoApi EXCEPT !.call = "cross_sync", !.id = call.op,
                            !.result = Registered(call.op)]
    /\ pc' = "idle"
    /\ call' = NoFrame
    /\ ret' = NoRet
    /\ UNCHANGED <<processor, broadcast, manager, sync_operations>>

Next ==
    \/ /\ pc = "idle"     \* SyncMemory's guard, ahead of the choice of inputs
       /\ \E in \in CallInputs :
             SyncMemory(in.targets, in.source, in.strategy, in.resolution,
                        in.timeout)
    \/ SyncMemoryUnserializable
    \/ PushSyncBegin
    \/ PullSyncBegin
    \/ PullSyncRaise
    \/ UnknownStrategy
    \/ BroadcastBegin
    \/ BroadcastSkipUnknown
    \/ BroadcastSendStub
    \/ BroadcastSendDivina
    \/ DivinaAccepted
    \/ DivinaAttemptFails
    \/ DivinaBackoff
    \/ BroadcastReturn
    \/ MockBroadcastReturns
    \/ MockBroadcastConflict
    \/ PushSyncReturn
    \/ Complete
    \/ ExceptSyncConflict
    \/ Resolve
    \/ Resolved
    \/ ResolveFailed
    \/ Unresolved
    \/ ExceptOther
    \/ \E id \in 0..Len(ops) : CancelSyncOperation(id)
    \/ \E id \in 0..Len(ops) : GetSyncStatus(id)
    \/ SyncMemoryReturn
    \/ BroadcastCrossSyncUpdate

Spec == Init /\ [][Next]_vars

(***************************************************************************)
(* The resolvers on every conflict list of the bounds: the operation is in *)
(* CONFLICT, sync_memory is about to look the strategy up (line 161).      *)
(***************************************************************************)
InitResolve ==
    /\ manager = "mock"
    /\ ops = <<[status |-> "CONFLICT",
                metadata |-> {"sync_strategy", "conflict_resolution", "timeout",
                              "conflicts"}]>>
    /\ sync_operations = {}
    /\ pc = "resolve"
    /\ \E resolution \in ConflictResolutions, conflicts \in ConflictLists :
          call = [NoFrame EXCEPT !.op = 1,
                                 !.source_network = "local",
                                 !.target_networks = <<"divina_l3">>,
                                 !.sync_strategy = "push",
                                 !.conflict_resolution = resolution,
                                 !.exc = "SyncConflict",
                                 !.broadcast_calls = 1,
                                 !.conflicts = conflicts]
    /\ ret = NoRet
    /\ api = NoApi
    /\ patterns = <<>>
    /\ pattern_keys = <<>>
    /\ encoded = <<>>
    /\ entangled_pairs = <<>>
    /\ returned = NoReturn
    /\ broadcast = NoBroadcast

NextResolve == Resolve \/ Resolved \/ ResolveFailed \/ Unresolved

SpecResolve == InitResolve /\ [][NextResolve]_vars

(***************************************************************************)
(* The merge on every list of versions with data of the bounds.            *)
(***************************************************************************)
InitMerge ==
    /\ manager = "mock"
    /\ ops = <<[status |-> "CONFLICT",
                metadata |-> {"sync_strategy", "conflict_resolution", "timeout",
                              "conflicts"}]>>
    /\ sync_operations = {}
    /\ pc = "resolve"
    /\ \E conflicts \in MergeConflictLists :
          call = [NoFrame EXCEPT !.op = 1,
                                 !.source_network = "local",
                                 !.target_networks = <<"divina_l3">>,
                                 !.sync_strategy = "push",
                                 !.conflict_resolution = "merge",
                                 !.exc = "SyncConflict",
                                 !.broadcast_calls = 1,
                                 !.conflicts = conflicts]
    /\ ret = NoRet
    /\ api = NoApi
    /\ patterns = <<>>
    /\ pattern_keys = <<>>
    /\ encoded = <<>>
    /\ entangled_pairs = <<>>
    /\ returned = NoReturn
    /\ broadcast = NoBroadcast

NextMerge == Resolve \/ Resolved

SpecMerge == InitMerge /\ [][NextMerge]_vars

(***************************************************************************)
(* The manager's operation API on a registry that a client of the manager  *)
(* has filled: sync_operations is a public attribute, and nothing in the   *)
(* repository writes to it.  The operations are in any status.             *)
(***************************************************************************)
SyncStatuses == {"PENDING", "IN_PROGRESS", "COMPLETED", "FAILED", "CONFLICT"}

OpLists ==
    SeqsUpTo([status : SyncStatuses,
              metadata : {{"sync_strategy", "conflict_resolution", "timeout"}}],
             MaxOps)

InitApi ==
    /\ manager = "real"
    /\ ops \in OpLists
    /\ sync_operations \in SUBSET DOMAIN ops
    /\ pc = "idle"
    /\ call = NoFrame
    /\ ret = NoRet
    /\ api = NoApi
    /\ patterns = <<>>
    /\ pattern_keys = <<>>
    /\ encoded = <<>>
    /\ entangled_pairs = <<>>
    /\ returned = NoReturn
    /\ broadcast = NoBroadcast

NextApi ==
    \/ \E id \in 0..Len(ops) : CancelSyncOperation(id)
    \/ \E id \in 0..Len(ops) : GetSyncStatus(id)

SpecApi == InitApi /\ [][NextApi]_vars

(***************************************************************************)
(* sync_memory beside a client that enters the running operation in the    *)
(* manager's sync_operations, the public dict cancel_sync_operation and     *)
(* get_sync_status look operations up in and no code of the manager or the  *)
(* synchronizer fills.                                                      *)
(***************************************************************************)
\* manager.sync_operations[op_id] = synchronizer.active_operations[op_id],
\* while the call that built the operation is suspended
RegisterOperation ==
    /\ pc \in {"dl3_attempt", "dl3_backoff"}
    /\ call.op \notin sync_operations
    /\ sync_operations' = sync_operations \cup {call.op}
    /\ api' = NoApi
    /\ UNCHANGED <<processor, broadcast, manager, ops, pc, call, ret>>

NextCancel == Next \/ RegisterOperation

SpecCancel == Init /\ [][NextCancel]_vars

(***************************************************************************)
(* broadcast_memory(sync_across_networks = True) as a caller of the        *)
(* manager makes it: the loop over the networks, then the nested           *)
(* sync_memory of the manager's own synchronizer, whose push calls         *)
(* broadcast_memory again with sync_across_networks = False.               *)
(***************************************************************************)
\* line 208: `networks is None` stands for the configured networks, in the
\* order of the configuration
AllConfigured == <<"divina_l3", "novasanctum", "whispurrnet">>

\* the networks argument of the calls made
BroadcastNetworks == TargetLists \cup {AllConfigured}

\* lines 185-243: the call is entered; the quantum processing block writes
\* into the record unless its encoding raises, which it does for a record
\* json.dumps cannot serialize (that exception is caught at line 237).
\* conflict_resolution is left at its default: the real manager raises no
\* SyncConflict.
BroadcastMemory(networks, sync_strategy, serializable) ==
    /\ pc = "idle"
    /\ broadcast.pc \in {"none", "returned"}
    /\ Len(ops) < MaxOps
    /\ broadcast' = [NoBroadcast EXCEPT !.pc = "loop",
                                        !.networks = networks,
                                        !.sync_strategy = sync_strategy,
                                        !.serializable = serializable]
    /\ call' = [NoFrame EXCEPT !.networks = networks,
                               !.memory = IF serializable THEN "annotated"
                                          ELSE "as_passed"]
    /\ pc' = "bm_loop"
    /\ ret' = NoRet
    /\ api' = NoApi
    /\ UNCHANGED <<processor, manager, ops, sync_operations>>

\* line 262: the loop is over and sync_across_networks is True
BroadcastLoopDone ==
    /\ pc = "bm_loop"
    /\ call.networks = <<>>
    /\ call.op = 0
    /\ broadcast.pc = "loop"
    /\ broadcast' = [broadcast EXCEPT !.pc = "sync", !.sent = call.sent]
    /\ pc' = "idle"
    /\ call' = NoFrame
    /\ api' = NoApi
    /\ UNCHANGED <<processor, manager, ops, sync_operations, ret>>

\* a cross-network block without its except clause
CrossNetworkSyncUncaught(r) ==
    IF r.kind = "raise" THEN [status |-> "", raised |-> TRUE]
    ELSE [status |-> r.status, raised |-> FALSE]

\* lines 263-288: results['cross_network_sync'] is what sync_memory
\* returned, or status error with the message of what it raised
CrossNetworkSync(r) ==
    IF r.kind = "raise" THEN [status |-> "error", raised |-> FALSE]
    ELSE [status |-> r.status, raised |-> FALSE]

\* lines 271-290: sync_memory has come back; the operation is marked if the
\* manager has it in sync_operations, and the results are returned
BroadcastMemoryReturn ==
    /\ pc = "returned"
    /\ broadcast.pc = "sync"
    /\ broadcast' = [broadcast EXCEPT
                        !.pc = "returned",
                        !.nested_calls = call.broadcast_calls,
                        !.nested_sent = call.sent,
                        !.nested_ret = ret.kind,
                        !.cross_network_sync = CrossNetworkSync(ret).status,
                        !.raised = CrossNetworkSync(ret).raised]
    /\ ops' = IF ret.kind = "return" /\ Registered(call.op)
              THEN [ops EXCEPT ![call.op] =
                       IF ret.status = "success"
                       THEN UpdateStatus(@, "COMPLETED", {})
                       ELSE UpdateStatus(@, "FAILED", {"error"})]
              ELSE ops
    /\ pc' = "idle"
    /\ call' = NoFrame
    /\ ret' = NoRet
    /\ api' = NoApi
    /\ UNCHANGED <<processor, manager, sync_operations>>

InitBroadcast ==
    /\ Init
    /\ manager = "real"

\* lines 264-270: sync_memory is called with the networks of the call, the
\* strategy of the call and no source_network
NextBroadcast ==
    \/ /\ pc = "idle"
       /\ \E networks \in BroadcastNetworks, sync_strategy \in SyncStrategies,
             serializable \in BOOLEAN :
             BroadcastMemory(networks, sync_strategy, serializable)
    \/ BroadcastSkipUnknown
    \/ BroadcastSendStub
    \/ BroadcastSendDivina
    \/ DivinaAccepted
    \/ DivinaAttemptFails
    \/ DivinaBackoff
    \/ BroadcastLoopDone
    \/ /\ broadcast.pc = "sync"
       /\ broadcast.serializable
       /\ SyncMemory(broadcast.networks, "local", broadcast.sync_strategy,
                     DefaultConflictResolution, DefaultTimeout)
    \/ /\ broadcast.pc = "sync"
       /\ ~broadcast.serializable
       /\ SyncMemoryUnserializable
    \/ PushSyncBegin
    \/ PullSyncBegin
    \/ PullSyncRaise
    \/ UnknownStrategy
    \/ BroadcastBegin
    \/ call.op # 0 /\ BroadcastReturn
    \/ PushSyncReturn
    \/ Complete
    \/ ExceptOther
    \/ BroadcastMemoryReturn

SpecBroadcast == InitBroadcast /\ [][NextBroadcast]_vars

(***************************************************************************)
(* encode_memory on every record of the domain, MaxEncodes calls of one    *)
(* processor.                                                              *)
(***************************************************************************)
MaxEncodes == 2

\* self.patterns[pattern_id] = pattern
Store(store, pattern) ==
    [id \in DOMAIN store \cup {pattern.pattern_id} |->
        IF id = pattern.pattern_id THEN pattern ELSE store[id]]

\* the same assignment, on the order of the dict's keys: a new key goes last,
\* a key already there keeps its place
StoreKey(keys, pattern) ==
    IF pattern.pattern_id \in Range(keys) THEN keys
    ELSE Append(keys, pattern.pattern_id)

\* one call of encode_memory(memory) whose run of the simulator reports
\* state, one of MostProbable[memory], most often
EncodeMemory(memory, state) ==
    /\ Len(encoded) < MaxEncodes
    /\ patterns' = Store(patterns, Pattern(memory, state))
    /\ pattern_keys' = StoreKey(pattern_keys, Pattern(memory, state))
    /\ encoded' = Append(encoded, Pattern(memory, state))
    /\ returned' = NoReturn
    /\ UNCHANGED <<broadcast, manager, ops, sync_operations, pc, call, ret, api,
                   entangled_pairs>>

\* thresholds, in tenths
DefaultThreshold == 8
Thresholds == {0, DefaultThreshold, 10}

\* abs(target_state.equiv(candidate_state)) of two Statevector.from_label:
\* equiv is a bool, True exactly for equal labels
Fidelity(pattern, candidate) ==
    IF pattern.qubits = candidate.qubits /\ pattern.state = candidate.state
    THEN 1 ELSE 0

\* the loop without its "continue" for the query's own id
RECURSIVE SimilarFromKeepsQuery(_, _, _)
SimilarFromKeepsQuery(pattern, threshold, i) ==
    IF i > Len(pattern_keys) THEN <<>>
    ELSE LET candidate == patterns[pattern_keys[i]]
             fidelity == Fidelity(pattern, candidate)
         IN  (IF fidelity * 10 >= threshold
              THEN <<<<candidate, fidelity>>>>
              ELSE <<>>)
             \o SimilarFromKeepsQuery(pattern, threshold, i + 1)

\* the loop of find_similar_patterns over self.patterns.items(), from the
\* i-th key on: the (candidate, fidelity) pairs appended to similar
RECURSIVE SimilarFrom(_, _, _)
SimilarFrom(pattern, threshold, i) ==
    IF i > Len(pattern_keys) THEN <<>>
    ELSE LET pid == pattern_keys[i]
             candidate == patterns[pid]
             fidelity == Fidelity(pattern, candidate)
         IN  (IF pid = pattern.pattern_id THEN <<>>
              ELSE IF fidelity * 10 >= threshold
                   THEN <<<<candidate, fidelity>>>>
                   ELSE <<>>)
             \o SimilarFrom(pattern, threshold, i + 1)

\* list.sort(key=lambda x: x[1], reverse=True): stable, highest key first
RECURSIVE SortBySimilarity(_)
SortBySimilarity(similar) ==
    IF similar = <<>> THEN <<>>
    ELSE LET top == CHOOSE i \in DOMAIN similar :
                        /\ \A j \in DOMAIN similar : similar[j][2] <= similar[i][2]
                        /\ \A j \in 1..(i - 1) : similar[j][2] < similar[i][2]
         IN  <<similar[top]>>
             \o SortBySimilarity(SubSeq(similar, 1, top - 1)
                                 \o SubSeq(similar, top + 1, Len(similar)))

\* find_similar_patterns(pattern, threshold)
FindSimilarPatterns(pattern, threshold) ==
    /\ returned' =
           [call |-> "find_similar_patterns",
            args |-> <<pattern, threshold>>,
            value |-> LET sorted == SortBySimilarity(SimilarFrom(pattern, threshold, 1))
                      IN  [i \in DOMAIN sorted |-> sorted[i][1]]]
    /\ UNCHANGED <<broadcast, manager, ops, sync_operations, pc, call, ret, api,
                   patterns, pattern_keys, encoded, entangled_pairs>>

InitEncode ==
    /\ manager = "real"
    /\ ops = <<>>
    /\ sync_operations = {}
    /\ pc = "idle"
    /\ call = NoFrame
    /\ ret = NoRet
    /\ api = NoApi
    /\ patterns = <<>>
    /\ pattern_keys = <<>>
    /\ encoded = <<>>
    /\ entangled_pairs = <<>>
    /\ returned = NoReturn
    /\ broadcast = NoBroadcast

\* find_similar_patterns is asked about a pattern encode_memory has returned
NextEncode ==
    \/ \E memory \in Memories :
           \E state \in MostProbable[memory] : EncodeMemory(memory, state)
    \/ \E i \in DOMAIN encoded, threshold \in Thresholds :
           FindSimilarPatterns(encoded[i], threshold)

SpecEncode == InitEncode /\ [][NextEncode]_vars

(***************************************************************************)
(* find_similar_patterns on every store of at most MaxPatterns patterns    *)
(* of one qubit, each under its own pattern_id as encode_memory and the    *)
(* tests store them; the ids are free, as QuantumMemoryPattern leaves them.*)
(***************************************************************************)
MaxPatterns == 3

FindIds == {<<"id", i>> : i \in 1..MaxPatterns}

FindPatterns ==
    [pattern_id : FindIds, qubits : {1}, state : {0, 1}, original_memory : {<<>>}]

\* the key orders of such a dict
FindKeys ==
    {keys \in SeqsUpTo(FindIds, MaxPatterns) :
        \A i, j \in DOMAIN keys : i # j => keys[i] # keys[j]}

InitFind ==
    /\ manager = "real"
    /\ ops = <<>>
    /\ sync_operations = {}
    /\ pc = "idle"
    /\ call = NoFrame
    /\ ret = NoRet
    /\ api = NoApi
    /\ pattern_keys \in FindKeys
    /\ patterns \in [Range(pattern_keys) -> FindPatterns]
    /\ \A id \in DOMAIN patterns : patterns[id].pattern_id = id
    /\ encoded = <<>>
    /\ entangled_pairs = <<>>
    /\ returned = NoReturn
    /\ broadcast = NoBroadcast

NextFind ==
    \E pattern \in FindPatterns, threshold \in Thresholds :
        FindSimilarPatterns(pattern, threshold)

SpecFind == InitFind /\ [][NextFind]_vars

(***************************************************************************)
(* quantum_entangle_memories of the manager and create_entangled_pair of   *)
(* its QuantumEntanglementManager, the one registry of pairs the manager   *)
(* has.                                                                    *)
(***************************************************************************)
\* quantum_entanglement_analysis(pattern1, pattern2): a Bell circuit of its
\* own, whatever the two patterns; the entropy of one half of a Bell state
\* is 1, above the 0.9 of 'are_entangled'
QuantumEntanglementAnalysis(pattern1, pattern2) ==
    [entanglement_entropy |-> 1, are_entangled |-> TRUE]

\* quantum_entangle_memories(memory1, memory2, network) with the states its
\* two encodings measure
QuantumEntangleMemories(memory1, state1, memory2, state2, network) ==
    LET pattern1 == Pattern(memory1, state1)
        pattern2 == Pattern(memory2, state2)
        entanglement_result == QuantumEntanglementAnalysis(pattern1, pattern2)
    IN  /\ Len(encoded) + 2 <= MaxEncodes
        /\ patterns' = Store(Store(patterns, pattern1), pattern2)
        /\ pattern_keys' = StoreKey(StoreKey(pattern_keys, pattern1), pattern2)
        /\ encoded' = encoded \o <<pattern1, pattern2>>
        /\ returned' =
               [call |-> "quantum_entangle_memories",
                args |-> <<memory1, memory2, network>>,
                value |-> [status |-> "success",
                           pattern1_id |-> pattern1.pattern_id,
                           pattern2_id |-> pattern2.pattern_id,
                           entangled |-> entanglement_result.are_entangled,
                           network |-> network]]
        /\ UNCHANGED <<broadcast, manager, ops, sync_operations, pc, call, ret, api,
                       entangled_pairs>>

DefaultPairQubits == 2

\* create_entangled_pair(qubits): one shot of H and the CNOT chain measures
\* all zeros or all ones; the pair is stored under the hash of that state
CreateEntangledPair(qubits, state) ==
    LET pair_id == Sha256(qubits, state)
    IN  /\ entangled_pairs' =
               [id \in DOMAIN entangled_pairs \cup {pair_id} |->
                   IF id = pair_id THEN [state |-> state, qubits |-> qubits]
                   ELSE entangled_pairs[id]]
        /\ returned' =
               [call |-> "create_entangled_pair",
                args |-> <<qubits>>,
                value |-> [pair_id |-> pair_id, qubits |-> qubits,
                           state |-> state]]
        /\ UNCHANGED <<broadcast, manager, ops, sync_operations, pc, call, ret, api,
                       patterns, pattern_keys, encoded>>

NextEntangle ==
    \/ \E memory1 \in Memories, memory2 \in Memories,
          network \in {"divina_l3", "local"} :
           \E state1 \in MostProbable[memory1], state2 \in MostProbable[memory2] :
               QuantumEntangleMemories(memory1, state1, memory2, state2, network)
    \/ \E state \in {0, 2 ^ DefaultPairQubits - 1} :
           CreateEntangledPair(DefaultPairQubits, state)

SpecEntangle == InitEncode /\ [][NextEntangle]_vars

(***************************************************************************)
(* _generate_operation_id on records of the domain and on network names    *)
(* of at most MaxNameLen letters; a name is the sequence of its code       *)
(* points, as a text is.                                                   *)
(***************************************************************************)
MaxNameLen == 2

Names == SeqsUpTo({Ord("a"), Ord("c")}, MaxNameLen) \ {<<>>}

\* str(datetime.utcnow().timestamp()), two instants
Instants == {<<Digit(1)>>, <<Digit(2)>>}

\* s < t of two Python strings: by code point, a proper prefix first
RECURSIVE StrLess(_, _)
StrLess(s, t) ==
    IF t = <<>> THEN FALSE
    ELSE IF s = <<>> THEN TRUE
    ELSE IF Head(s) # Head(t) THEN Head(s) < Head(t)
    ELSE StrLess(Tail(s), Tail(t))

\* sorted(target_networks)
RECURSIVE SortedNames(_)
SortedNames(names) ==
    IF names = <<>> THEN <<>>
    ELSE LET least == CHOOSE i \in DOMAIN names :
                          /\ \A j \in DOMAIN names : ~StrLess(names[j], names[i])
                          /\ \A j \in 1..(i - 1) : StrLess(names[i], names[j])
         IN  <<names[least]>>
             \o SortedNames(SubSeq(names, 1, least - 1)
                            \o SubSeq(names, least + 1, Len(names)))

\* the bytes the successive op_hash.update calls feed the hash
RECURSIVE Concat(_)
Concat(texts) ==
    IF texts = <<>> THEN <<>> ELSE Head(texts) \o Concat(Tail(texts))

HashInput(memory, source_network, target_networks, now) ==
    JsonDumps(memory) \o source_network \o Concat(SortedNames(target_networks))
        \o now

\* f"sync_{op_hash.hexdigest()[:16]}": one id per sequence of bytes
GenerateOperationId(memory, source_network, target_networks, now) ==
    <<"sync", HashInput(memory, source_network, target_networks, now)>>

\* one call of _generate_operation_id at the instant now
OperationId(memory, source_network, target_networks, now) ==
    /\ returned' =
           [call |-> "_generate_operation_id",
            args |-> <<memory, source_network, target_networks, now>>,
            value |-> GenerateOperationId(memory, source_network,
                                          target_networks, now)]
    /\ UNCHANGED <<broadcast, manager, ops, sync_operations, pc, call, ret, api,
                   patterns, pattern_keys, encoded, entangled_pairs>>

NextOperationId ==
    \E memory \in Memories, source_network \in Names,
       target_networks \in SeqsUpTo(Names, MaxTargets), now \in Instants :
        OperationId(memory, source_network, target_networks, now)

SpecOperationId == InitEncode /\ [][NextOperationId]_vars

(***************************************************************************)
(* The first lines of encode_memory (50-63) on records too long to write   *)
(* out: {"a": s} with s one character repeated.  Such a text, and its bit  *)
(* string, is a sequence of blocks, each a short bit string with the       *)
(* number of times it is repeated.                                         *)
(***************************************************************************)
\* the lengths of s: the short ones, and those that bring the bit string to
\* one bit below, to, and one character above 2^17 .. 2^21 bits
FillLengths ==
    0..40 \cup {(2 ^ p) \div 8 - 9 + d : p \in 17..21, d \in {-1, 0, 1}}

LongMemories == [fill : {"x", "y"}, count : FillLengths]

\* a bit string repeated count times, and the 8 bits of a character so
Repeat(bits, count) == [block |-> bits, count |-> count]
Block(code, count) == Repeat(Format08b(code), count)

\* binary_str of json.dumps({"a": s}, sort_keys=True), in blocks
LongBinaryStr(memory) ==
    <<Block(Ord("{"), 1), Block(Ord("\""), 1), Block(Ord("a"), 1),
      Block(Ord("\""), 1), Block(Ord(":"), 1), Block(Ord(" "), 1),
      Block(Ord("\""), 1)>>
    \o (IF memory.count > 0 THEN <<Block(Ord(memory.fill), memory.count)>>
        ELSE <<>>)
    \o <<Block(Ord("\""), 1), Block(Ord("}"), 1)>>

\* len(binary_str)
RECURSIVE BitLen(_)
BitLen(blocks) ==
    IF blocks = <<>> THEN 0
    ELSE Len(Head(blocks).block) * Head(blocks).count + BitLen(Tail(blocks))

\* binary_str[:k]
RECURSIVE Take(_, _)
Take(blocks, k) ==
    IF blocks = <<>> \/ k = 0 THEN <<>>
    ELSE LET b == Head(blocks)
             size == Len(b.block)
         IN  IF size * b.count <= k
             THEN <<b>> \o Take(Tail(blocks), k - size * b.count)
             ELSE (IF k \div size > 0
                   THEN <<Repeat(b.block, k \div size)>>
                   ELSE <<>>)
                  \o (IF k % size > 0
                      THEN <<Repeat(SubSeq(b.block, 1, k % size), 1)>>
                      ELSE <<>>)

\* binary_str.ljust(k, '0')
LJust(blocks, k) ==
    IF BitLen(blocks) >= k THEN blocks
    ELSE blocks \o <<Repeat(<<0>>, k - BitLen(blocks))>>

\* the loop's last branch without its cut
LongCutKeepsAll(blocks) == blocks

\* lines 57-60: a string that left the loop by its last branch, and only
\* such a string, is longer than 2 ** n_qubits, and was cut to 2 ** 20
LongCut(blocks) ==
    IF BitLen(blocks) > 2 ^ QubitLoop(1, BitLen(blocks))
    THEN Take(blocks, 2 ^ MaxQubits) ELSE blocks

\* lines 50-63: n_qubits and binary_str as the circuit is built from them
LongEncoding(memory) ==
    LET binary_str == LongBinaryStr(memory)
        n_qubits == QubitLoop(1, BitLen(binary_str))
    IN  [n_qubits |-> n_qubits,
         binary_str |-> LJust(LongCut(binary_str), 2 ^ n_qubits)]

EncodeLongMemory(memory) ==
    /\ returned' = [call |-> "encode_memory", args |-> <<memory>>,
                    value |-> LongEncoding(memory)]
    /\ UNCHANGED <<broadcast, manager, ops, sync_operations, pc, call, ret, api,
                   patterns, pattern_keys, encoded, entangled_pairs>>

NextPad == \E memory \in LongMemories : EncodeLongMemory(memory)

SpecPad == InitEncode /\ [][NextPad]_vars

(***************************************************************************)
(* Properties                                                              *)
(***************************************************************************)
Terminal == {"COMPLETED", "FAILED"}

\* a sync_memory call that built an operation has just left
Finished == pc = "returned" /\ call.op # 0
\* ... and it was a push through the real manager's broadcast_memory
FinishedRealPush == Finished /\ manager = "real" /\ call.sync_strategy = "push"

\* lexicographic order of the version ids
IdRank(v) == CASE v = "v1" -> 1 [] v = "v2" -> 2 [] v = "v3" -> 3

\* C1: once an operation's status is COMPLETED or FAILED, no later step of
\* sync_memory, of the broadcast or of cancel_sync_operation changes it.
C1_TerminalStatusIsFinal ==
    [][\A i \in DOMAIN ops :
          ops[i].status \in Terminal => ops'[i].status = ops[i].status]_vars

\* a cancel of a finished operation has just run, after a later sync_memory
\* call ran to its end beside it
C1_Witness ==
    /\ Len(ops) = 2
    /\ ops[1].status = "COMPLETED"
    /\ ops[2].status = "FAILED"
    /\ api = [NoApi EXCEPT !.call = "cancel", !.id = 1]

\* C2: an operation leaves PENDING only for IN_PROGRESS, for every
\* sync_strategy value.
C2_PendingLeavesToInProgress ==
    [][\A i \in DOMAIN ops :
          (ops[i].status = "PENDING" /\ ops'[i].status # "PENDING")
              => ops'[i].status = "IN_PROGRESS"]_vars

\* C3: a push ends COMPLETED if at least one target's send succeeded, and
\* FAILED otherwise (every send failed, or no target is left).
C3_PushCompletedIffSomeTargetSucceeded ==
    FinishedRealPush =>
        ops[call.op].status =
            IF \E n \in DOMAIN call.results : call.results[n] = "success"
            THEN "COMPLETED" ELSE "FAILED"

\* C4: when one target's send fails after exhausting its retries, the sends
\* to the other targets are still made: the operation ends COMPLETED, the
\* result marks the exhausted target as error and every stub network among
\* the targets as success.
C4_FailedSendDoesNotAbortOthers ==
    (/\ FinishedRealPush
     /\ \E d \in DOMAIN call.network_results :
           call.network_results[d].message = "exhausted")
    => /\ ops[call.op].status = "COMPLETED"
       /\ ret.kind = "return"
       /\ \A n \in DOMAIN call.network_results :
             call.network_results[n].message = "exhausted"
                 => n \in DOMAIN ret.results /\ ret.results[n] = "error"
       /\ \A n \in Range(call.target_networks) \cap StubNetworks :
             n \in DOMAIN ret.results /\ ret.results[n] = "success"

\* divina_l3 exhausted its retries, novasanctum was sent to after it
C4_Witness ==
    /\ FinishedRealPush
    /\ call.target_networks = <<"divina_l3", "novasanctum">>
    /\ call.network_results["divina_l3"].message = "exhausted"
    /\ ret.results = ("divina_l3" :> "error") @@ ("novasanctum" :> "success")
    /\ ops[call.op].status = "COMPLETED"

C6_NoExceptionLeavesSyncMemory ==
    Finished => ret.kind = "return"

\* C7: when a backend send raised SyncConflict during a push, the operation
\* went through CONFLICT and the resolver was invoked.
C7_SendConflictReachesResolver ==
    (Finished /\ call.send_conflict)
        => "conflicts" \in ops[call.op].metadata /\ call.resolver_called

\* C8: after a SyncConflict the operation does not stay in CONFLICT: it is
\* COMPLETED with 'resolution' when the registered resolver returned, FAILED
\* with 'error' when the resolver raised or no strategy of that name exists.
C8_ConflictEndsCompletedOrFailed ==
    (Finished /\ call.exc = "SyncConflict")
    => LET o == ops[call.op]
           returns == /\ call.conflict_resolution \in RegisteredStrategies
                      /\ Resolver(call.conflict_resolution, call.conflicts).kind # "raise"
       IN  IF returns
           THEN o.status = "COMPLETED" /\ "resolution" \in o.metadata
           ELSE o.status = "FAILED" /\ "error" \in o.metadata

\* one operation resolved, a later one left with a strategy nobody registered
C8_Witness ==
    /\ Finished
    /\ Len(ops) = 2
    /\ ops[1].status = "COMPLETED" /\ "resolution" \in ops[1].metadata
    /\ call.exc = "SyncConflict"
    /\ call.conflict_resolution \notin RegisteredStrategies
    /\ ops[2].status = "FAILED" /\ "error" \in ops[2].metadata

\* C9: 'timestamp' selects a version with the latest timestamp and, among
\* those, the lowest version_id, whatever the order of the list.
C9_TimestampLatestThenLowestId ==
    (pc = "resolved" /\ call.conflict_resolution = "timestamp" /\ call.conflicts # <<>>)
    => \E i \in DOMAIN call.conflicts :
          /\ call.resolution.selected_version = call.conflicts[i].version_id
          /\ \A j \in DOMAIN call.conflicts :
                /\ call.conflicts[j].timestamp <= call.conflicts[i].timestamp
                /\ call.conflicts[j].timestamp = call.conflicts[i].timestamp
                      => IdRank(call.conflicts[i].version_id)
                             <= IdRank(call.conflicts[j].version_id)

\* C10: 'entropy' selects a version with the highest entropy score and,
\* among those, the latest timestamp, whatever the order of the list.
C10_EntropyHighestThenLatest ==
    (pc = "resolved" /\ call.conflict_resolution = "entropy" /\ call.conflicts # <<>>)
    => \E i \in DOMAIN call.conflicts :
          /\ call.resolution.selected_version = call.conflicts[i].version_id
          /\ \A j \in DOMAIN call.conflicts :
                /\ call.conflicts[j].quantum_entropy <= call.conflicts[i].quantum_entropy
                /\ call.conflicts[j].quantum_entropy = call.conflicts[i].quantum_entropy
                      => call.conflicts[j].timestamp <= call.conflicts[i].timestamp

\* C11: 'source_priority' selects a version whose source_network has the
\* highest priority of the table and, among those, the latest timestamp,
\* whatever the order of the list.
C11_PriorityHighestThenLatest ==
    (pc = "resolved" /\ call.conflict_resolution = "source_priority"
        /\ call.conflicts # <<>>)
    => \E i \in DOMAIN call.conflicts :
          /\ call.resolution.selected_version = call.conflicts[i].version_id
          /\ \A j \in DOMAIN call.conflicts :
                /\ PriorityKey(call.conflicts[j]) <= PriorityKey(call.conflicts[i])
                /\ PriorityKey(call.conflicts[j]) = PriorityKey(call.conflicts[i])
                      => call.conflicts[j].timestamp <= call.conflicts[i].timestamp

\* C12: 'merge' produces the field union of the versions' data: every key of
\* any version is in the merged result exactly once, with the value of the
\* first version in input order that has the key, and the reported sources
\* are exactly the source networks of the input versions.
C12_MergeIsFirstSeenFieldUnion ==
    (pc = "resolved" /\ call.conflict_resolution = "merge" /\ call.conflicts # <<>>)
    => LET r == call.resolution
           c == call.conflicts
           KeysOf(i) == IF c[i].data.is_dict THEN DOMAIN c[i].data.items ELSE {}
           allKeys == UNION {KeysOf(i) : i \in DOMAIN c}
           First(k) == CHOOSE i \in DOMAIN c :
                           k \in KeysOf(i) /\ \A j \in 1..(i - 1) : k \notin KeysOf(j)
       IN  /\ r.kind = "merged"
           /\ DOMAIN r.merged = allKeys
           /\ Range(r.merged_fields) = allKeys
           /\ Len(r.merged_fields) = Cardinality(allKeys)
           /\ \A k \in allKeys : r.merged[k] = c[First(k)].data.items[k]
           /\ r.sources = {c[i].source_network : i \in DOMAIN c}

\* versions {a: 1, b: 2} and {a: 2, c: 1}: the first one listed wins 'a'
C12_Witness ==
    /\ pc = "resolved"
    /\ call.conflict_resolution = "merge"
    /\ Len(call.conflicts) = 2
    /\ call.conflicts[1].data = [is_dict |-> TRUE, items |-> ("a" :> 1) @@ ("b" :> 2)]
    /\ call.conflicts[2].data = [is_dict |-> TRUE, items |-> ("a" :> 2) @@ ("c" :> 1)]
    /\ call.conflicts[1].source_network = "divina_l3"
    /\ call.conflicts[2].source_network = "local"
    /\ call.resolution.merged = ("a" :> 1) @@ ("b" :> 2) @@ ("c" :> 1)
    /\ call.resolution.merged_fields = <<"a", "b", "c">>
    /\ call.resolution.sources = {"divina_l3", "local"}

\* C13: applying a resolution sends the chosen version to the target
\* networks again: when a resolver reports 'applied', sync_memory has called
\* the network manager a second time, after the call that met the conflict.
C13_ApplyResolutionSendsAgain ==
    (pc = "resolved" /\ call.resolution.applied /\ call.target_networks # <<>>)
        => call.broadcast_calls >= 2

\* C14: cancel_sync_operation returns True and sets the operation FAILED with
\* 'cancelled' exactly when the id is registered and the status is PENDING
\* or IN_PROGRESS; otherwise (COMPLETED, FAILED, CONFLICT, unknown id) it
\* returns False and leaves every operation unchanged.
C14_CancelOnlyPendingOrInProgress ==
    [][api'.call = "cancel"
        => LET id == api'.id
               can == id \in sync_operations
                         /\ ops[id].status \in {"PENDING", "IN_PROGRESS"}
           IN  /\ api'.result = can
               /\ ops' = IF can
                         THEN [ops EXCEPT ![id] =
                                  [status |-> "FAILED",
                                   metadata |-> @.metadata \cup {"cancelled"}]]
                         ELSE ops]_vars

\* a registered IN_PROGRESS operation has been cancelled, then the cancel of
\* a registered operation in CONFLICT was refused
C14_Witness ==
    /\ Len(ops) = 2
    /\ sync_operations = {1, 2}
    /\ ops[1].status = "FAILED" /\ "cancelled" \in ops[1].metadata
    /\ ops[2].status = "CONFLICT"
    /\ api = [NoApi EXCEPT !.call = "cancel", !.id = 2]

\* C15: every operation sync_memory created is known to the manager API:
\* get_sync_status of it returns a view (not None) with the operation's
\* current status, and a cancel of it is refused only when its status is
\* neither PENDING nor IN_PROGRESS.
C15_CreatedOperationIsQueryable ==
    /\ (api.call = "status" /\ api.id \in DOMAIN ops)
           => api.result /\ api.status = ops[api.id].status
    /\ (api.call = "cancel" /\ api.id \in DOMAIN ops /\ ~api.result)
           => ops[api.id].status \notin {"PENDING", "IN_PROGRESS"}

C17_TimeoutEndsTheOperation ==
    (call.op # 0 /\ pc # "returned" /\ ops[call.op].status = "IN_PROGRESS")
        => call.slept <= call.timeout

\* C18: the retry loop of a send makes at most max_retries attempts: an
\* accepted response ends it, a target is recorded as failed by it only after
\* exactly max_retries failed attempts, it waits 2^k seconds after the k-th
\* failed attempt (k from 0) only when another attempt follows, and leaving
\* it, accepted or exhausted, goes on to the next target with the entries of
\* the other targets untouched.
C18_RetryLoopIsBounded ==
    [][LET a == call.attempt
           head == Head(call.networks)
       IN  /\ pc = "dl3_attempt"
                => /\ a < DefaultMaxRetries
                   /\ pc' \in {"dl3_attempt", "dl3_backoff", "bm_loop"}
           /\ (pc = "dl3_attempt" /\ pc' = "dl3_backoff")
                => /\ a < DefaultMaxRetries - 1
                   /\ call'.attempt = a
                   /\ call'.slept = call.slept
                   /\ call'.networks = call.networks
           /\ (pc = "dl3_backoff" /\ pc' # "dl3_backoff")
                => /\ pc' = "dl3_attempt"
                   /\ call'.attempt = a + 1
                   /\ call'.slept = call.slept + 2 ^ a
                   /\ call'.networks = call.networks
           /\ (pc = "dl3_attempt" /\ pc' = "bm_loop")
                => /\ call'.networks = Tail(call.networks)
                   /\ call'.slept = call.slept
                   /\ head \in DOMAIN call'.network_results
                   /\ call'.network_results[head].status = "error"
                         => a = DefaultMaxRetries - 1
                   /\ \A n \in DOMAIN call.network_results \ {head} :
                         call'.network_results[n] = call.network_results[n]]_vars

\* divina_l3 was given up after three attempts and waits of 1 and 2 seconds;
\* novasanctum, sent to before it, keeps its entry
C18_Witness ==
    /\ pc = "bm_loop"
    /\ call.target_networks = <<"novasanctum", "divina_l3">>
    /\ call.networks = <<>>
    /\ call.network_results["novasanctum"].status = "success"
    /\ call.network_results["divina_l3"] = Result("error", "exhausted")
    /\ call.slept = 3


\* C19: encode_memory is deterministic in the pattern id: two calls with the
\* same record return patterns with the same pattern_id.
C19_SameRecordSamePatternId ==
    \A i, j \in DOMAIN encoded :
        encoded[i].original_memory = encoded[j].original_memory
            => encoded[i].pattern_id = encoded[j].pattern_id

\* C20: two patterns with the same pattern_id were derived from identical
\* records: encode_memory never stores, under an id already in the store, a
\* pattern whose source record differs from the stored one's.
C20_NoOverwriteByAnotherRecord ==
    [][\A id \in DOMAIN patterns \cap DOMAIN patterns' :
          patterns'[id].original_memory = patterns[id].original_memory]_vars

\* C21: a pattern is immutable once created: no step of sync_memory or
\* broadcast_memory after encode_memory changes the record the pattern holds
\* in metadata['original_memory'], and the caller's record stays as passed.
C21_RecordStaysAsPassed ==
    call.op # 0 => call.memory = "as_passed"

C23_OneLinkPerPair ==
    (returned.call = "quantum_entangle_memories" /\ returned.value.status = "success") =>
        LET a == returned.value.pattern1_id
            b == returned.value.pattern2_id
        IN  Cardinality({id \in DOMAIN entangled_pairs :
                            id[1] = "link" /\ {id[2], id[3]} = {a, b}}) = 1

\* C24: operation_id is unique and derivable from its inputs: at one instant,
\* two calls get the same operation_id only if they have the same record, the
\* same source network and the same set of target networks, and calls with
\* such equal inputs always get the same id.
C24_OperationIdIsInjective ==
    [][(/\ returned.call = "_generate_operation_id"
        /\ returned'.call = "_generate_operation_id"
        /\ returned.args[4] = returned'.args[4])
       => LET same == /\ returned.args[1] = returned'.args[1]
                      /\ returned.args[2] = returned'.args[2]
                      /\ Range(returned.args[3]) = Range(returned'.args[3])
          IN  (returned.value = returned'.value) <=> same]_vars

\* C25: a bidirectional sync_memory call performs the push and then the pull
\* and returns both result sets: when the push has returned its results, the
\* call ends COMPLETED and returns a result.
C25_BidirectionalCompletes ==
    (/\ Finished
     /\ call.sync_strategy = "bidirectional"
     /\ call.broadcast_calls >= 1
     /\ call.exc # "SyncConflict")
    => /\ ops[call.op].status = "COMPLETED"
       /\ ret.kind = "return"
       /\ ret.status = "success"

C27_CappedAndPadded ==
    [][(returned'.call = "encode_memory")
       => LET memory == returned'.args[1]
              n == returned'.value.n_qubits
              out == returned'.value.binary_str
              input == LongBinaryStr(memory)
          IN  /\ n \in 1..20
              /\ BitLen(out) = 2 ^ n
              /\ IF BitLen(input) <= 2 ^ 20
                 THEN /\ Take(out, BitLen(input)) = input
                      /\ \A i \in DOMAIN out :
                            i > Len(input) => out[i].block = <<0>>
                 ELSE /\ n = 20
                      /\ out = Take(input, 2 ^ 20)
              /\ (/\ returned.call = "encode_memory"
                  /\ Take(LongBinaryStr(returned.args[1]), 2 ^ 20)
                         = Take(input, 2 ^ 20)
                  /\ BitLen(LongBinaryStr(returned.args[1])) >= 2 ^ 20
                  /\ BitLen(input) >= 2 ^ 20)
                 => returned.value = returned'.value]_vars

\* C28: the source network is never a dispatch target: the target_networks
\* of an operation sync_memory created do not hold its source_network, and no
\* send of the operation's broadcast goes to the source network or leaves an
\* entry for it, even when the caller listed the source among the targets.
C28_SourceIsNeverATarget ==
    call.op # 0 =>
        /\ call.source_network \notin Range(call.target_networks)
        /\ call.source_network \notin Range(call.networks)
        /\ manager = "real" =>
               call.source_network \notin DOMAIN call.network_results

\* the caller listed the source, a configured network, among the targets, and
\* the broadcast has sent to the others
C28_Witness ==
    /\ pc = "push_results"
    /\ manager = "real"
    /\ call.source_listed
    /\ call.source_network \in ConfiguredNetworks
    /\ call.network_results # EmptyMap

Count(network, sent) == Cardinality({i \in DOMAIN sent : sent[i] = network})

C27_Witness ==
    /\ returned.call = "encode_memory"
    /\ BitLen(LongBinaryStr(returned.args[1])) > 2 ^ 20
    /\ returned.value.n_qubits = 20
    /\ BitLen(returned.value.binary_str) = 2 ^ 20

====
